---- MODULE Spec2Model ----
(***************************************************************************)
(* A model of the SCRAM-SHA-256 verifier generator (main.go).              *)
(*                                                                         *)
(* Strings are sequences of byte values 0..255, as Go strings are.  The    *)
(* formatting, base64, trimming and UTF-8 operators compute what the Go    *)
(* library functions compute.  SHA-256 and HMAC-SHA-256 are abstract       *)
(* 32-byte digest functions (deterministic, of the right length, distinct  *)
(* from one another, not the real compression function); PBKDF2 chains     *)
(* and exclusive-ors HMAC values as RFC 8018 does.                         *)
(*                                                                         *)
(* Spec is a run of the program (main).  SpecFn calls validatePassword and *)
(* generateSCRAMSHA256 on inputs of its own, and SpecSeq calls             *)
(* generateSCRAMSHA256 several times in one process.  The default of 4096  *)
(* iterations is not among the counts tried.                               *)
(***************************************************************************)
EXTENDS Integers, Sequences, FiniteSets, TLC

VARIABLES pc, config, stdin, password, hash, stdout, stderr, exitCode,
          calls, randLog, trace

vars == <<pc, config, stdin, password, hash, stdout, stderr, exitCode,
          calls, randLog, trace>>

----------------------------------------------------------------------------
(* Bounds of the model *)

\* longest stdin stream / typed password, in bytes
MaxLen == 3
\* number of calls of generateSCRAMSHA256 made in a row, each on its own inputs
MaxCalls == 2
\* number of calls in a row when the calls are compared with one another
MaxSeq == 3
\* largest iteration count tried
MaxIter == 10

----------------------------------------------------------------------------
(* Program constants *)

saltLength == 16
keyLength == 32

LF == 10
CR == 13
DOLLAR == 36
COLON == 58
PAD == 61

\* "SCRAM-SHA-256"
Prefix == <<83, 67, 82, 65, 77, 45, 83, 72, 65, 45, 50, 53, 54>>
\* "Client Key"
ClientKeyLabel == <<67, 108, 105, 101, 110, 116, 32, 75, 101, 121>>
\* "Server Key"
ServerKeyLabel == <<83, 101, 114, 118, 101, 114, 32, 75, 101, 121>>

----------------------------------------------------------------------------
(* Library functions the program calls *)

RECURSIVE Itoa(_)
\* fmt's %d of a non-negative int
Itoa(n) == IF n < 10 THEN <<48 + n>> ELSE Itoa(n \div 10) \o <<48 + (n % 10)>>

\* fmt's %d verb
FormatInt(n) == IF n < 0 THEN <<45>> \o Itoa(0 - n) ELSE Itoa(n)

\* base64.StdEncoding's alphabet
B64Char(i) ==
    IF i < 26 THEN 65 + i
    ELSE IF i < 52 THEN 97 + (i - 26)
    ELSE IF i < 62 THEN 48 + (i - 52)
    ELSE IF i = 62 THEN 43 ELSE 47

RECURSIVE EncodeToString(_)
\* base64.StdEncoding.EncodeToString: 3 bytes to 4 characters, '=' padded
EncodeToString(src) ==
    IF Len(src) = 0 THEN <<>>
    ELSE IF Len(src) = 1 THEN
        << B64Char(src[1] \div 4), B64Char((src[1] % 4) * 16), PAD, PAD >>
    ELSE IF Len(src) = 2 THEN
        << B64Char(src[1] \div 4),
           B64Char((src[1] % 4) * 16 + (src[2] \div 16)),
           B64Char((src[2] % 16) * 4), PAD >>
    ELSE
        << B64Char(src[1] \div 4),
           B64Char((src[1] % 4) * 16 + (src[2] \div 16)),
           B64Char((src[2] % 16) * 4 + (src[3] \div 64)),
           B64Char(src[3] % 64) >>
        \o EncodeToString(SubSeq(src, 4, Len(src)))

IsCont(b) == b >= 128 /\ b <= 191

RECURSIVE ValidString(_)
\* utf8.ValidString
ValidString(s) ==
    IF Len(s) = 0 THEN TRUE
    ELSE LET b == s[1]
             n == Len(s)
             rest(k) == SubSeq(s, k + 1, n)
         IN  IF b < 128 THEN ValidString(rest(1))
             ELSE IF b >= 194 /\ b <= 223 THEN
                 n >= 2 /\ IsCont(s[2]) /\ ValidString(rest(2))
             ELSE IF b >= 224 /\ b <= 239 THEN
                 /\ n >= 3
                 /\ s[2] >= (IF b = 224 THEN 160 ELSE 128)
                 /\ s[2] <= (IF b = 237 THEN 159 ELSE 191)
                 /\ IsCont(s[3])
                 /\ ValidString(rest(3))
             ELSE IF b >= 240 /\ b <= 244 THEN
                 /\ n >= 4
                 /\ s[2] >= (IF b = 240 THEN 144 ELSE 128)
                 /\ s[2] <= (IF b = 244 THEN 143 ELSE 191)
                 /\ IsCont(s[3]) /\ IsCont(s[4])
                 /\ ValidString(rest(4))
             ELSE FALSE

IsCutset(b) == b = CR \/ b = LF

RECURSIVE TrimRight_Space(_)
\* a bug: strings.TrimSpace's cutset, which takes trailing blanks too
TrimRight_Space(s) ==
    IF Len(s) > 0 /\ (IsCutset(s[Len(s)]) \/ s[Len(s)] = 32)
    THEN TrimRight_Space(SubSeq(s, 1, Len(s) - 1))
    ELSE s

RECURSIVE TrimRight(_)
\* strings.TrimRight(s, "\r\n")
TrimRight(s) ==
    IF Len(s) > 0 /\ IsCutset(s[Len(s)]) THEN TrimRight(SubSeq(s, 1, Len(s) - 1))
    ELSE s

RECURSIVE XorBits(_, _, _)
XorBits(a, b, k) ==
    IF k = 0 THEN 0
    ELSE ((a + b) % 2) + 2 * XorBits(a \div 2, b \div 2, k - 1)

\* bytewise exclusive or of two equally long byte strings
XorBytes(x, y) == SubSeq([i \in 1..Len(x) |-> XorBits(x[i], y[i], 8)], 1, Len(x))

RECURSIVE Mix(_, _, _, _, _)
\* a checksum of s[lo..hi], folded pairwise
Mix(s, lo, hi, p, m) ==
    IF lo > hi THEN 1
    ELSE IF lo = hi THEN (s[lo] * m + lo) % p
    ELSE LET mid == (lo + hi) \div 2
         IN  (Mix(s, lo, mid, p, m) * 131 + Mix(s, mid + 1, hi, p, m) * 31 + 7) % p

\* a 32-byte digest of msg; m1 and m2 tell one digest function from another
Digest(msg, m1, m2) ==
    LET h1 == Mix(msg, 1, Len(msg), 32749, m1)
        h2 == Mix(msg, 1, Len(msg), 32719, m2)
    IN  SubSeq([i \in 1..keyLength |->
                   (((h1 + i) * (h2 + 3 * i + Len(msg))) % 65521) % 256], 1, keyLength)

\* sha256.Sum256(msg)
Sum256(msg) == Digest(msg, 3, 5)

\* hmac.New(sha256.New, key) ; Write(msg) ; Sum(nil): a keyed 32-byte digest
HMAC(key, msg) == Digest(<<Len(key)>> \o key \o msg, 7, 11)

RECURSIVE PBKDF2Loop(_, _, _, _)
\* U_2 .. U_iter of RFC 8018, each exclusive-or'ed into t
PBKDF2Loop(pw, u, t, left) ==
    IF left = 0 THEN t
    ELSE LET u2 == HMAC(pw, u) IN PBKDF2Loop(pw, u2, XorBytes(t, u2), left - 1)

\* pbkdf2.Key(password, salt, iter, 32, sha256.New) computed: one block, as keyLen = hLen
PBKDF2Compute(pw, salt, iter) ==
    LET u1 == HMAC(pw, salt \o <<0, 0, 0, 1>>)
    IN  PBKDF2Loop(pw, u1, u1, iter - 1)

----------------------------------------------------------------------------
(* Inputs of the model *)

\* bytes a password or stream is made of: 'a', ' ', CR, LF, and 0xFF (never valid in UTF-8)
Alphabet == {97, 32, CR, LF, 255}

Strings(n) == UNION {[1..k -> Alphabet] : k \in 0..n}

\* what os.Stdin holds: the bytes, and what a Read past them returns
StdinStreams == [data : Strings(MaxLen), end : {"EOF", "ERR"}]

\* the -i values tried
IterChoices == {-1, 0, 1, MaxIter}

Configs == [UseStdin : BOOLEAN, ShowHelp : BOOLEAN, Iterations : IterChoices]

\* what the system's random source holds when it is read: more bytes than one salt
Entropy ==
    { [i \in 1..(saltLength + 4) |-> 0],
      [i \in 1..(saltLength + 4) |-> (251 + 37 * i) % 256] }

\* the outcome of one read of crypto/rand: failure, or bytes
RandOutcomes == {[ok |-> FALSE, bytes |-> <<>>]} \cup {[ok |-> TRUE, bytes |-> e] : e \in Entropy}

\* passwords a caller of generateSCRAMSHA256 passes: "", "a a", and an invalid byte
FnPasswords == {<<>>, <<97, 32, 97>>, <<255>>}

\* passwords of the calls that are compared with one another: "a a" and an invalid byte
SeqPasswords == {<<97, 32, 97>>, <<255>>}

\* the salts the entropy above gives
Salts == {SubSeq(e, 1, saltLength) : e \in Entropy}

\* the passwords that can reach the derivation
Passwords ==
    FnPasswords \cup {x \in Strings(MaxLen) : \A i \in 1..Len(x) : x[i] # LF /\ x[i] # 255}

\* pbkdf2.Key on the inputs above, computed once
PBKDF2Table ==
    [k \in Passwords \X Salts \X {n \in IterChoices : n >= 1} |-> PBKDF2Compute(k[1], k[2], k[3])]
    @@ <<>>

\* pbkdf2.Key(password, salt, iter, keyLength, sha256.New)
PBKDF2Key(pw, salt, iter) ==
    IF <<pw, salt, iter>> \in DOMAIN PBKDF2Table THEN PBKDF2Table[<<pw, salt, iter>>]
    ELSE PBKDF2Compute(pw, salt, iter)

----------------------------------------------------------------------------
(* The functions of main.go *)

\* rand.Read(b) with len(b) = n: fills b from the source, or fails
RandRead(n, rnd) ==
    IF rnd.ok THEN [bytes |-> SubSeq(rnd.bytes, 1, n), err |-> "nil"]
    ELSE [bytes |-> [i \in 1..n |-> 0], err |-> "rand failure"]

\* a bug: the format string has its delimiters exchanged
Sprintf_SwappedDelimiters(iterations, saltB64, storedKeyB64, serverKeyB64) ==
    Prefix \o <<COLON>> \o FormatInt(iterations) \o <<DOLLAR>> \o saltB64
           \o <<COLON>> \o storedKeyB64 \o <<DOLLAR>> \o serverKeyB64

\* fmt.Sprintf("SCRAM-SHA-256$%d:%s$%s:%s", ...)
Sprintf(iterations, saltB64, storedKeyB64, serverKeyB64) ==
    Prefix \o <<DOLLAR>> \o FormatInt(iterations) \o <<COLON>> \o saltB64
           \o <<DOLLAR>> \o storedKeyB64 \o <<COLON>> \o serverKeyB64

NoCrypto == [pbkdf2 |-> 0, hmac |-> 0, sum256 |-> 0]

\* a result of generateSCRAMSHA256 that is an error
Failure(msg, reads) ==
    [result |-> <<>>, err |-> msg, reads |-> reads, salt |-> <<>>, crypto |-> NoCrypto]

\* a bug: the ClientKey is written where the StoredKey belongs
deriveAndFormat_EmitClientKey(pw, iterations, salt) ==
    LET saltedPassword == PBKDF2Key(pw, salt, iterations)
        clientKeyBytes == HMAC(saltedPassword, ClientKeyLabel)
        serverKeyBytes == HMAC(saltedPassword, ServerKeyLabel)
    IN  [result |-> Sprintf(iterations, EncodeToString(salt), EncodeToString(clientKeyBytes),
                            EncodeToString(serverKeyBytes)),
         err |-> "nil", reads |-> <<saltLength>>, salt |-> salt,
         crypto |-> [pbkdf2 |-> 1, hmac |-> 2, sum256 |-> 0]]

\* generateSCRAMSHA256 from the salt on: the keys, their encoding, the result
deriveAndFormat(pw, iterations, salt) ==
    LET saltedPassword == PBKDF2Key(pw, salt, iterations)
        clientKeyBytes == HMAC(saltedPassword, ClientKeyLabel)
        storedKey == Sum256(clientKeyBytes)
        serverKeyBytes == HMAC(saltedPassword, ServerKeyLabel)
        saltB64 == EncodeToString(salt)
        storedKeyB64 == EncodeToString(storedKey)
        serverKeyB64 == EncodeToString(serverKeyBytes)
    IN  [result |-> Sprintf(iterations, saltB64, storedKeyB64, serverKeyB64),
         err |-> "nil", reads |-> <<saltLength>>, salt |-> salt,
         crypto |-> [pbkdf2 |-> 1, hmac |-> 2, sum256 |-> 1]]

\* a bug: the salt is drawn before the iteration count is checked
generateSCRAMSHA256_SaltFirst(pw, iterations, rnd) ==
    LET rd == RandRead(saltLength, rnd)
    IN  IF rd.err # "nil" THEN Failure("failed to generate salt", <<saltLength>>)
        ELSE IF iterations < 1 THEN Failure("iterations must be at least 1", <<saltLength>>)
        ELSE deriveAndFormat(pw, iterations, rd.bytes)

\* a bug: a failed read is ignored and the zeroed buffer is used as the salt
generateSCRAMSHA256_ZeroSalt(pw, iterations, rnd) ==
    IF iterations < 1 THEN Failure("iterations must be at least 1", <<>>)
    ELSE deriveAndFormat(pw, iterations, RandRead(saltLength, rnd).bytes)

\* a bug: the digest state of the previous call is not reset
generateSCRAMSHA256_Stale(pw, iterations, rnd) ==
    IF iterations < 1 THEN Failure("iterations must be at least 1", <<>>)
    ELSE LET rd == RandRead(saltLength, rnd)
         IN  IF rd.err # "nil" THEN Failure("failed to generate salt", <<saltLength>>)
             ELSE IF calls = <<>> THEN deriveAndFormat(pw, iterations, rd.bytes)
             ELSE deriveAndFormat(calls[Len(calls)].password \o pw, iterations, rd.bytes)

\* a bug: the salt is kept in a package variable and drawn only once
generateSCRAMSHA256_KeptSalt(pw, iterations, rnd) ==
    IF iterations < 1 THEN Failure("iterations must be at least 1", <<>>)
    ELSE LET kept == {i \in 1..Len(calls) : calls[i].salt # <<>>}
             rd == RandRead(saltLength, rnd)
         IN  IF kept # {} THEN
                 [deriveAndFormat(pw, iterations, calls[CHOOSE i \in kept : TRUE].salt)
                     EXCEPT !.reads = <<>>]
             ELSE IF rd.err # "nil" THEN Failure("failed to generate salt", <<saltLength>>)
             ELSE deriveAndFormat(pw, iterations, rd.bytes)

\* generateSCRAMSHA256, with rnd the outcome the random source has for a read.
\* reads: the lengths of the reads made of the random source; crypto: the calls
\* made of pbkdf2.Key, hmac.New and sha256.Sum256.
generateSCRAMSHA256(pw, iterations, rnd) ==
    IF iterations < 1 THEN Failure("iterations must be at least 1", <<>>)
    ELSE LET rd == RandRead(saltLength, rnd)
             salt == rd.bytes
         IN  IF rd.err # "nil" THEN Failure("failed to generate salt", <<saltLength>>)
             ELSE deriveAndFormat(pw, iterations, salt)

\* a bug: the encoding check is left out
validatePassword_NoEncodingCheck(pw) ==
    IF Len(pw) = 0 THEN "password cannot be empty" ELSE "nil"

\* validatePassword
validatePassword(pw) ==
    IF Len(pw) = 0 THEN "password cannot be empty"
    ELSE IF ~ValidString(pw) THEN "password must be valid UTF-8"
    ELSE "nil"

\* bufio.Reader.ReadString('\n') on a fresh reader of the stream
ReadString(in) ==
    LET hits == {i \in 1..Len(in.data) : in.data[i] = LF}
    IN  IF hits # {} THEN
            LET first == CHOOSE i \in hits : \A j \in hits : i <= j
            IN  [line |-> SubSeq(in.data, 1, first), err |-> "nil"]
        ELSE [line |-> in.data, err |-> IF in.end = "EOF" THEN "EOF" ELSE "read error"]

\* readPasswordFromStdin
readPasswordFromStdin(in) ==
    LET r == ReadString(in)
    IN  IF r.err # "nil" /\ r.err # "EOF" THEN
            [password |-> <<>>, err |-> "failed to read from stdin"]
        ELSE [password |-> TrimRight(r.line), err |-> "nil"]

\* term.ReadPassword(int(syscall.Stdin)): the line typed, without its '\n';
\* an error when the terminal cannot be read
ReadPassword(in) ==
    LET r == ReadString(in)
    IN  IF r.err = "read error" THEN [ok |-> FALSE, bytes |-> <<>>]
        ELSE [ok |-> TRUE,
              bytes |-> IF r.err = "nil" THEN SubSeq(r.line, 1, Len(r.line) - 1) ELSE r.line]

\* promptPassword
promptPassword(in) ==
    LET t == ReadPassword(in)
    IN
    IF ~t.ok THEN [password |-> <<>>, err |-> "failed to read password", out |-> <<"Password: ">>]
    ELSE [password |-> t.bytes, err |-> "nil", out |-> <<"Password: ", "\n">>]

\* the record kept of one call of generateSCRAMSHA256
CallRecord(via, pw, iterations, g) ==
    [via |-> via, password |-> pw, iterations |-> iterations,
     result |-> g.result, err |-> g.err, reads |-> g.reads, salt |-> g.salt,
     crypto |-> g.crypto]

\* a read of the random source, as the source saw it
ReadRecord(n, rnd) == [n |-> n, ok |-> rnd.ok, bytes |-> IF rnd.ok THEN SubSeq(rnd.bytes, 1, n) ELSE <<>>]

Reads(g, rnd) == [i \in 1..Len(g.reads) |-> ReadRecord(g.reads[i], rnd)]

Exit(code) == exitCode' = code /\ pc' = "exited"

----------------------------------------------------------------------------
(* A run of the program: main *)

Init ==
    /\ pc = "start"
    /\ config = [UseStdin |-> FALSE, ShowHelp |-> FALSE, Iterations |-> 0]
    /\ stdin \in StdinStreams
    /\ password = <<>>
    /\ hash = <<>>
    /\ stdout = <<>>
    /\ stderr = <<>>
    /\ exitCode = -1
    /\ calls = <<>>
    /\ randLog = <<>>
    /\ trace = <<>>

\* config := parseFlags()
ParseFlags ==
    /\ pc = "start"
    /\ \E c \in Configs : config' = c
    /\ pc' = "parsed"
    /\ trace' = Append(trace, "parseFlags")
    /\ UNCHANGED <<stdin, password, hash, stdout, stderr, exitCode, calls, randLog>>

\* if config.ShowHelp { showHelp(); os.Exit(0) }
ShowHelp ==
    /\ pc = "parsed"
    /\ config.ShowHelp
    /\ stdout' = Append(stdout, [kind |-> "help", text |-> <<>>])
    /\ Exit(0)
    /\ trace' = Append(trace, "showHelp")
    /\ UNCHANGED <<config, stdin, password, hash, stderr, calls, randLog>>

\* password, err = readPasswordFromStdin()
ReadStdin ==
    /\ pc = "parsed"
    /\ ~config.ShowHelp
    /\ config.UseStdin
    /\ LET r == readPasswordFromStdin(stdin)
       IN  IF r.err # "nil" THEN
               /\ stderr' = Append(stderr, [prefix |-> "Error reading password from stdin", err |-> r.err])
               /\ Exit(1)
               /\ UNCHANGED password
           ELSE
               /\ password' = r.password
               /\ pc' = "validate"
               /\ UNCHANGED <<stderr, exitCode>>
    /\ trace' = Append(trace, "readPasswordFromStdin")
    /\ UNCHANGED <<config, stdin, hash, stdout, calls, randLog>>

\* password, err = promptPassword()
PromptPassword ==
    /\ pc = "parsed"
    /\ ~config.ShowHelp
    /\ ~config.UseStdin
    /\  LET r == promptPassword(stdin)
        IN  /\ stdout' = stdout \o [i \in 1..Len(r.out) |-> [kind |-> "prompt", text |-> r.out[i]]]
            /\ IF r.err # "nil" THEN
                   /\ stderr' = Append(stderr, [prefix |-> "Error reading password", err |-> r.err])
                   /\ Exit(1)
                   /\ UNCHANGED password
               ELSE
                   /\ password' = r.password
                   /\ pc' = "validate"
                   /\ UNCHANGED <<stderr, exitCode>>
    /\ trace' = Append(trace, "promptPassword")
    /\ UNCHANGED <<config, stdin, hash, calls, randLog>>

\* a bug: the iteration count is checked before the password
Validate_IterationsFirst ==
    /\ pc = "validate"
    /\ LET e == IF config.Iterations < 1 THEN "iterations must be at least 1"
                ELSE validatePassword(password)
       IN  IF e # "nil" THEN
               /\ stderr' = Append(stderr, [prefix |-> IF config.Iterations < 1
                                                       THEN "Error generating SCRAM-SHA-256"
                                                       ELSE "Invalid password", err |-> e])
               /\ Exit(1)
           ELSE
               /\ pc' = "generate"
               /\ UNCHANGED <<stderr, exitCode>>
    /\ trace' = Append(trace, "validatePassword")
    /\ UNCHANGED <<config, stdin, password, hash, stdout, calls, randLog>>

\* if err := validatePassword(password); err != nil { ...; os.Exit(1) }
Validate ==
    /\ pc = "validate"
    /\ LET e == validatePassword(password)
       IN  IF e # "nil" THEN
               /\ stderr' = Append(stderr, [prefix |-> "Invalid password", err |-> e])
               /\ Exit(1)
           ELSE
               /\ pc' = "generate"
               /\ UNCHANGED <<stderr, exitCode>>
    /\ trace' = Append(trace, "validatePassword")
    /\ UNCHANGED <<config, stdin, password, hash, stdout, calls, randLog>>

\* a bug: the error of generateSCRAMSHA256 is dropped
Generate_ErrorDropped ==
    /\ pc = "generate"
    /\ \E rnd \in RandOutcomes :
        LET g == generateSCRAMSHA256(password, config.Iterations, rnd)
        IN  /\ calls' = Append(calls, CallRecord("main", password, config.Iterations, g))
            /\ randLog' = randLog \o Reads(g, rnd)
            /\ hash' = g.result
    /\ pc' = "print"
    /\ trace' = Append(trace, "generateSCRAMSHA256")
    /\ UNCHANGED <<config, stdin, password, stdout, stderr, exitCode>>

\* hash, err := generateSCRAMSHA256(password, config.Iterations)
Generate ==
    /\ pc = "generate"
    /\ \E rnd \in RandOutcomes :
        LET g == generateSCRAMSHA256(password, config.Iterations, rnd)
        IN  /\ calls' = Append(calls, CallRecord("main", password, config.Iterations, g))
            /\ randLog' = randLog \o Reads(g, rnd)
            /\ IF g.err # "nil" THEN
                   /\ stderr' = Append(stderr, [prefix |-> "Error generating SCRAM-SHA-256", err |-> g.err])
                   /\ Exit(1)
                   /\ UNCHANGED hash
               ELSE
                   /\ hash' = g.result
                   /\ pc' = "print"
                   /\ UNCHANGED <<stderr, exitCode>>
    /\ trace' = Append(trace, "generateSCRAMSHA256")
    /\ UNCHANGED <<config, stdin, password, stdout>>

\* fmt.Println(hash), and main returns
PrintHash ==
    /\ pc = "print"
    /\ stdout' = Append(stdout, [kind |-> "line", text |-> hash])
    /\ Exit(0)
    /\ trace' = Append(trace, "Println")
    /\ UNCHANGED <<config, stdin, password, hash, stderr, calls, randLog>>

Next ==
    \/ ParseFlags
    \/ ShowHelp
    \/ ReadStdin
    \/ PromptPassword
    \/ Validate
    \/ Generate
    \/ PrintHash

Spec == Init /\ [][Next]_vars

----------------------------------------------------------------------------
(* Calls of the functions on their own, as a test in package main makes them: *)
(* the test fixes an iteration count and calls with one password after another *)

InitFn ==
    /\ pc = "test"
    /\ \E n \in IterChoices : config = [UseStdin |-> FALSE, ShowHelp |-> FALSE, Iterations |-> n]
    /\ stdin = [data |-> <<>>, end |-> "EOF"]
    /\ password = <<>>
    /\ hash = <<>>
    /\ stdout = <<>>
    /\ stderr = <<>>
    /\ exitCode = -1
    /\ calls = <<>>
    /\ randLog = <<>>
    /\ trace = <<>>

\* generateSCRAMSHA256(pw, n), called directly
CallGenerate ==
    /\ pc = "test"
    /\ Len(calls) < MaxCalls
    /\ \E pw \in FnPasswords, rnd \in RandOutcomes :
        LET n == config.Iterations
            g == generateSCRAMSHA256(pw, n, rnd)
        IN  /\ calls' = Append(calls, CallRecord("direct", pw, n, g))
            /\ randLog' = randLog \o Reads(g, rnd)
            /\ hash' = g.result
    /\ trace' = Append(trace, "generateSCRAMSHA256")
    /\ UNCHANGED <<pc, config, stdin, password, stdout, stderr, exitCode>>

\* validatePassword(pw), and generateSCRAMSHA256(pw, n) only when it returns nil,
\* as main calls them
CallValidated ==
    /\ pc = "test"
    /\ Len(calls) < MaxCalls
    /\ \E pw \in FnPasswords, rnd \in RandOutcomes :
        LET n == config.Iterations
            e == validatePassword(pw)
            g == IF e # "nil"
                 THEN Failure(e, <<>>)
                 ELSE generateSCRAMSHA256(pw, n, rnd)
        IN  /\ calls' = Append(calls, CallRecord("validated", pw, n, g))
            /\ randLog' = randLog \o Reads(g, rnd)
            /\ hash' = g.result
    /\ trace' = Append(trace, "validatePassword")
    /\ UNCHANGED <<pc, config, stdin, password, stdout, stderr, exitCode>>

NextFn == CallGenerate \/ CallValidated

SpecFn == InitFn /\ [][NextFn]_vars

----------------------------------------------------------------------------
(* generateSCRAMSHA256 called again and again in one process *)

InitSeq ==
    /\ pc = "seq"
    /\ \E n \in IterChoices : config = [UseStdin |-> FALSE, ShowHelp |-> FALSE, Iterations |-> n]
    /\ stdin = [data |-> <<>>, end |-> "EOF"]
    /\ password = <<>>
    /\ hash = <<>>
    /\ stdout = <<>>
    /\ stderr = <<>>
    /\ exitCode = -1
    /\ calls = <<>>
    /\ randLog = <<>>
    /\ trace = <<>>

\* the next generateSCRAMSHA256(pw, n) of the sequence
CallAgain ==
    /\ pc = "seq"
    /\ Len(calls) < MaxSeq
    /\ \E pw \in SeqPasswords, rnd \in RandOutcomes :
        LET n == config.Iterations
            g == generateSCRAMSHA256(pw, n, rnd)
        IN  /\ calls' = Append(calls, CallRecord("direct", pw, n, g))
            /\ randLog' = randLog \o Reads(g, rnd)
            /\ hash' = g.result
    /\ trace' = Append(trace, "generateSCRAMSHA256")
    /\ UNCHANGED <<pc, config, stdin, password, stdout, stderr, exitCode>>

NextSeq == CallAgain

SpecSeq == InitSeq /\ [][NextSeq]_vars

----------------------------------------------------------------------------
(* Reading a verifier back, as a SCRAM server does *)

RECURSIVE SplitOn(_, _)
\* the fields of s between the occurrences of the byte d
SplitOn(s, d) ==
    LET hits == {i \in 1..Len(s) : s[i] = d}
    IN  IF hits = {} THEN <<s>>
        ELSE LET f == CHOOSE i \in hits : \A j \in hits : i <= j
             IN  <<SubSeq(s, 1, f - 1)>> \o SplitOn(SubSeq(s, f + 1, Len(s)), d)

\* the value of a base64 character, -1 when it is none
B64Val(c) ==
    IF c >= 65 /\ c <= 90 THEN c - 65
    ELSE IF c >= 97 /\ c <= 122 THEN c - 71
    ELSE IF c >= 48 /\ c <= 57 THEN c + 4
    ELSE IF c = 43 THEN 62
    ELSE IF c = 47 THEN 63
    ELSE -1

RECURSIVE DecodeQuads(_)
\* the bytes of padded base64 text, <<-1>> somewhere in the result when it is malformed
DecodeQuads(t) ==
    IF Len(t) = 0 THEN <<>>
    ELSE IF Len(t) < 4 THEN <<-1>>
    ELSE LET a == B64Val(t[1])
             b == B64Val(t[2])
             c == B64Val(t[3])
             d == B64Val(t[4])
             last == Len(t) = 4
         IN  IF a < 0 \/ b < 0 THEN <<-1>>
             ELSE IF last /\ t[3] = PAD /\ t[4] = PAD THEN <<a * 4 + (b \div 16)>>
             ELSE IF last /\ c >= 0 /\ t[4] = PAD THEN
                 <<a * 4 + (b \div 16), (b % 16) * 16 + (c \div 4)>>
             ELSE IF c < 0 \/ d < 0 THEN <<-1>>
             ELSE <<a * 4 + (b \div 16), (b % 16) * 16 + (c \div 4), (c % 4) * 64 + d>>
                  \o DecodeQuads(SubSeq(t, 5, Len(t)))

Decodes(t) == \A i \in 1..Len(DecodeQuads(t)) : DecodeQuads(t)[i] >= 0

RECURSIVE DigitsValue(_)
DigitsValue(s) ==
    IF Len(s) = 0 THEN 0 ELSE DigitsValue(SubSeq(s, 1, Len(s) - 1)) * 10 + (s[Len(s)] - 48)

\* a decimal integer without sign or leading zeros
IsDecimal(s) ==
    /\ Len(s) >= 1
    /\ \A i \in 1..Len(s) : s[i] >= 48 /\ s[i] <= 57
    /\ (Len(s) > 1 => s[1] # 48)

\* the verifier split on '$' and then on ':'
Parse(v) ==
    LET top == SplitOn(v, DOLLAR)
        left == IF Len(top) >= 2 THEN SplitOn(top[2], COLON) ELSE <<>>
        right == IF Len(top) >= 3 THEN SplitOn(top[3], COLON) ELSE <<>>
    IN  IF Len(top) = 3 /\ Len(left) = 2 /\ Len(right) = 2
        THEN [ok |-> TRUE, prefix |-> top[1], iterations |-> left[1], salt |-> left[2],
              storedKey |-> right[1], serverKey |-> right[2]]
        ELSE [ok |-> FALSE, prefix |-> <<>>, iterations |-> <<>>, salt |-> <<>>,
              storedKey |-> <<>>, serverKey |-> <<>>]

BadPassword(pw) == Len(pw) = 0 \/ ~ValidString(pw)

EndsInLineEnd(s) == Len(s) > 0 /\ (s[Len(s)] = CR \/ s[Len(s)] = LF)

\* generateSCRAMSHA256 itself ran in the call recorded as r
Ran(r) == r.via # "validated" \/ ~BadPassword(r.password)

\* the most recent call; every call is the most recent one when it is made
LastCall == calls[Len(calls)]

\* the number of calls among the first i that got as far as the salt
ReadsUpTo(i) == Cardinality({j \in 1..i : Ran(calls[j]) /\ calls[j].iterations >= 1})

VerifierLines == {i \in 1..Len(stdout) : stdout[i].kind = "line"}

----------------------------------------------------------------------------
(* Claims *)

\* C1 as stated: generateSCRAMSHA256 itself, called with an empty password or one
\* that is not valid UTF-8, returns an error and no verifier, whatever the count.
C1_CoreRejectsBadPassword ==
    \A i \in 1..Len(calls) :
        (calls[i].via = "direct" /\ BadPassword(calls[i].password))
            => (calls[i].err # "nil" /\ calls[i].result = <<>>)

\* C1 amended: the check is validatePassword's, which main calls first: an empty
\* or non-UTF-8 password is rejected there with its own error, for every iteration
\* count, before any random read or key derivation; generateSCRAMSHA256 itself
\* checks only the iteration count and derives a verifier from such a password.
C1_ValidationRejectsBadPassword ==
    \A i \in 1..Len(calls) :
        LET r == calls[i]
        IN  /\ (r.via = "validated" /\ Len(r.password) = 0)
                => (r.err = "password cannot be empty" /\ r.result = <<>>
                    /\ r.reads = <<>> /\ r.crypto = NoCrypto)
            /\ (r.via = "validated" /\ Len(r.password) > 0 /\ ~ValidString(r.password))
                => (r.err = "password must be valid UTF-8" /\ r.result = <<>>
                    /\ r.reads = <<>> /\ r.crypto = NoCrypto)
            /\ (r.via = "direct" /\ BadPassword(r.password) /\ r.iterations >= 1
                    /\ randLog[ReadsUpTo(i)].ok)
                => (r.err = "nil" /\ Parse(r.result).ok)

C1_Witness ==
    /\ \E i \in 1..Len(calls) :
        calls[i].via = "validated" /\ ~ValidString(calls[i].password) /\ calls[i].err # "nil"
    /\ \E i \in 1..Len(calls) :
        calls[i].via = "direct" /\ BadPassword(calls[i].password) /\ calls[i].err = "nil"

\* C2: for every iteration count below 1, generateSCRAMSHA256 returns an error and
\* an empty result with no read of the random source and no call of PBKDF2, HMAC
\* or SHA-256.
C2_LowIterationsRejectedFirst ==
    /\ \A i \in 1..Len(calls) :
        (Ran(calls[i]) /\ calls[i].iterations < 1)
            => /\ calls[i].err = "iterations must be at least 1"
               /\ calls[i].result = <<>>
               /\ calls[i].reads = <<>>
               /\ calls[i].crypto = NoCrypto
    /\ Len(randLog) = ReadsUpTo(Len(calls))

C2_Witness ==
    \E i \in 1..Len(calls) :
        calls[i].via = "direct" /\ calls[i].iterations < 1 /\ ~BadPassword(calls[i].password)

\* C3: a successful derivation emits base64(salt), base64(SHA-256(HMAC(K, "Client
\* Key"))) and base64(HMAC(K, "Server Key")) with K = PBKDF2(password, salt, n, 32),
\* the salt in the output being the one drawn and fed to PBKDF2; neither the
\* ClientKey nor the SaltedPassword is a field of the output.
C3_FieldsAreTheDerivedKeys ==
    (calls # <<>> /\ LastCall.err = "nil") =>
        LET r == LastCall
            p == Parse(r.result)
            s == randLog[Len(randLog)].bytes
            K == PBKDF2Key(r.password, s, r.iterations)
            ck == HMAC(K, ClientKeyLabel)
            fields == {DecodeQuads(p.salt), DecodeQuads(p.storedKey), DecodeQuads(p.serverKey)}
        IN  /\ p.ok
            /\ p.salt = EncodeToString(s)
            /\ p.storedKey = EncodeToString(Sum256(ck))
            /\ p.serverKey = EncodeToString(HMAC(K, ServerKeyLabel))
            /\ r.crypto = [pbkdf2 |-> 1, hmac |-> 2, sum256 |-> 1]
            /\ ck \notin fields
            /\ K \notin fields

C3_Witness ==
    /\ calls # <<>>
    /\ LastCall.err = "nil"
    /\ LastCall.iterations > 1
    /\ Parse(LastCall.result).ok
    /\ \E i \in 1..saltLength : LastCall.salt[i] # 0

\* C4: a successful derivation with count n returns SCRAM-SHA-256$<n>:<salt>$<stored
\* key>:<serverkey> without whitespace; split on '$' and ':' it gives the prefix, n in
\* decimal without leading zeros, a salt field that decodes to 16 bytes and two key
\* fields that decode to 32 bytes each; the delimiters occur nowhere in a field.
C4_FormatRoundTrip ==
    (calls # <<>> /\ LastCall.err = "nil") =>
        LET r == LastCall
            v == r.result
            p == Parse(v)
        IN  /\ \A i \in 1..Len(v) : v[i] \notin {32, 9, LF, CR}
            /\ Cardinality({i \in 1..Len(v) : v[i] = DOLLAR}) = 2
            /\ Cardinality({i \in 1..Len(v) : v[i] = COLON}) = 2
            /\ p.ok
            /\ p.prefix = Prefix
            /\ IsDecimal(p.iterations)
            /\ DigitsValue(p.iterations) = r.iterations
            /\ Decodes(p.salt) /\ Len(DecodeQuads(p.salt)) = 16
            /\ Decodes(p.storedKey) /\ Len(DecodeQuads(p.storedKey)) = 32
            /\ Decodes(p.serverKey) /\ Len(DecodeQuads(p.serverKey)) = 32

C4_Witness ==
    /\ calls # <<>>
    /\ LastCall.err = "nil"
    /\ LastCall.iterations >= 10
    /\ \E i \in 1..Len(LastCall.result) : LastCall.result[i] \in {43, 47}

\* the part of os.Stdin up to and with its first '\n', all of it when it has none
FirstLine(d) ==
    CHOOSE l \in {SubSeq(d, 1, k) : k \in 0..Len(d)} :
        /\ \A i \in 1..(Len(l) - 1) : l[i] # LF
        /\ (Len(l) = Len(d) \/ (Len(l) > 0 /\ l[Len(l)] = LF))

\* no read reaches a '\n', and the read past the data fails
ReadFails == (\A i \in 1..Len(stdin.data) : stdin.data[i] # LF) /\ stdin.end = "ERR"

RandFailed == randLog # <<>> /\ ~randLog[1].ok

HasRead == Len(trace) >= 2 /\ trace[2] \in {"readPasswordFromStdin", "promptPassword"}

\* C5: a run that attempts a derivation exits 0 after printing exactly one verifier
\* line when reading, validation and derivation succeed; on a read failure, an empty
\* or non-UTF-8 password, a count below 1 or a failed salt read it exits 1, and no
\* verifier line is ever on standard output.
C5_ExitStatusReflectsResult ==
    /\ (VerifierLines # {}) => (pc = "exited" /\ exitCode = 0)
    /\ (pc = "exited" /\ ~config.ShowHelp) =>
        IF ReadFails \/ BadPassword(password) \/ config.Iterations < 1 \/ RandFailed
        THEN exitCode = 1 /\ VerifierLines = {} /\ Len(stderr) = 1
        ELSE /\ exitCode = 0
             /\ stderr = <<>>
             /\ Cardinality(VerifierLines) = 1
             /\ stdout[Len(stdout)].kind = "line"
             /\ stdout[Len(stdout)].text = calls[1].result
             /\ Parse(stdout[Len(stdout)].text).ok

C5_Witness ==
    /\ pc = "exited"
    /\ exitCode = 0
    /\ ~config.ShowHelp
    /\ config.UseStdin
    /\ Cardinality(VerifierLines) = 1

\* C6: when the random source fails to give the salt, generateSCRAMSHA256 returns
\* an error and an empty result on that call, having read once: no second read, no
\* other salt, no key derivation.
C6_RandomFailureIsFatal ==
    \A i \in 1..Len(calls) :
        (Ran(calls[i]) /\ calls[i].iterations >= 1 /\ ReadsUpTo(i) <= Len(randLog)
            /\ ~randLog[ReadsUpTo(i)].ok)
            => /\ calls[i].err = "failed to generate salt"
               /\ calls[i].result = <<>>
               /\ calls[i].salt = <<>>
               /\ calls[i].reads = <<saltLength>>
               /\ calls[i].crypto = NoCrypto
               /\ Len(randLog) = ReadsUpTo(Len(calls))

C6_Witness ==
    \E i \in 1..Len(calls) :
        /\ calls[i].via = "direct" /\ calls[i].iterations >= 1
        /\ ~randLog[ReadsUpTo(i)].ok
        /\ i < Len(calls)

\* C7: readPasswordFromStdin returns the first line of the input less its trailing
\* '\r' and '\n' bytes and nothing else; end of stream without a newline is no
\* error, any other read error is; the password it hands on never ends in '\r' or
\* '\n'.
C7_StdinTrimsOnlyLineEnds ==
    (config.UseStdin /\ HasRead) =>
        LET l == FirstLine(stdin.data)
        IN  IF ReadFails
            THEN /\ pc = "exited" /\ exitCode = 1 /\ calls = <<>>
                 /\ stderr = <<[prefix |-> "Error reading password from stdin",
                                err |-> "failed to read from stdin"]>>
            ELSE /\ \E k \in 0..Len(l) :
                        /\ password = SubSeq(l, 1, k)
                        /\ \A j \in (k + 1)..Len(l) : l[j] = CR \/ l[j] = LF
                 /\ ~EndsInLineEnd(password)
                 /\ \A i \in 1..Len(stderr) : stderr[i].prefix # "Error reading password from stdin"
                 /\ \A i \in 1..Len(calls) : calls[i].password = password

C7_Witness ==
    /\ config.UseStdin
    /\ pc = "print"
    /\ stdin.end = "EOF"
    /\ stdin.data = <<32, 97, CR>>
    /\ password = <<32, 97>>

C9_SaltIsTheKthRead ==
    /\ Len(randLog) = ReadsUpTo(Len(calls))
    /\ \A k \in 1..Len(randLog) : randLog[k].n = saltLength
    /\ \A i \in 1..Len(calls) :
        IF Ran(calls[i]) /\ calls[i].iterations >= 1
        THEN /\ calls[i].reads = <<saltLength>>
             /\ randLog[ReadsUpTo(i)].ok =>
                    /\ calls[i].err = "nil"
                    /\ Len(randLog[ReadsUpTo(i)].bytes) = 16
                    /\ DecodeQuads(Parse(calls[i].result).salt) = randLog[ReadsUpTo(i)].bytes
        ELSE calls[i].reads = <<>>

C9_Witness ==
    /\ Len(calls) >= 2
    /\ Len(randLog) >= 2
    /\ randLog[1].ok /\ randLog[2].ok
    /\ randLog[1].bytes # randLog[2].bytes
    /\ calls[1].password = calls[2].password

\* C10: the help flag is looked at first, and with it the program prints the help
\* and exits 0 without reading a password or deriving anything; without it the
\* password is read and validated before the iteration count is looked at, so a
\* run with a count below 1 still reads the password, and a run with a bad password
\* and a bad count reports the password.
C10_HelpThenPasswordThenIterations ==
    /\ (config.ShowHelp /\ pc # "parsed") =>
        /\ pc = "exited" /\ exitCode = 0
        /\ trace = <<"parseFlags", "showHelp">>
        /\ stdout = <<[kind |-> "help", text |-> <<>>]>>
        /\ stderr = <<>> /\ calls = <<>> /\ randLog = <<>>
    /\ (calls # <<>>) =>
        /\ ~config.ShowHelp
        /\ HasRead
        /\ SubSeq(trace, 3, 4) = <<"validatePassword", "generateSCRAMSHA256">>
        /\ ~BadPassword(calls[1].password)
    /\ (pc = "exited" /\ ~config.ShowHelp /\ config.Iterations < 1) =>
        /\ HasRead
        /\ (~ReadFails /\ BadPassword(password)) =>
            /\ calls = <<>>
            /\ Len(stderr) = 1
            /\ stderr[1].prefix = "Invalid password"
            /\ stderr[1].err \in {"password cannot be empty", "password must be valid UTF-8"}
        /\ (~ReadFails /\ ~BadPassword(password)) =>
            /\ stderr = <<[prefix |-> "Error generating SCRAM-SHA-256",
                           err |-> "iterations must be at least 1"]>>

C10_Witness ==
    /\ pc = "exited"
    /\ ~config.ShowHelp
    /\ config.Iterations < 1
    /\ HasRead
    /\ password = <<255>>
    /\ stderr = <<[prefix |-> "Invalid password", err |-> "password must be valid UTF-8"]>>

====
